---- MODULE Spec2Model ----
(***************************************************************************)
(* Model of src/snowflake_sql_api.py: the SnowflakeAPI client.             *)
(*                                                                         *)
(* One client instance, driven by one caller.  The clock `now` counts      *)
(* tenths of a second, so that 0.9 * expires_in is the integer             *)
(* 9 * expires_in.  The clock advances during an HTTP round trip, during   *)
(* time.sleep(1) and between calls; statements between two network calls   *)
(* run at one clock reading.                                               *)
(*                                                                         *)
(* JSON objects are functions from key strings; `k in obj` is              *)
(* k \in DOMAIN obj.  Python's None (JSON null) is NoneVal.                *)
(***************************************************************************)
EXTENDS Integers, Sequences, FiniteSets, TLC

VARIABLES
    now,               \* time.time(), in tenths of a second
    access_token,      \* self._access_token
    token_expires_at,  \* self._token_expires_at
    config,            \* self.database, self.schema
    pc,                \* position of the caller inside the current call
    op,                \* the public method being run
    ret,               \* where the running _get_access_token returns to
    args,              \* arguments of the current call
    tok,               \* local access_token of the running method
    token_data,        \* local token_data of _get_access_token
    handle,            \* local statement_handle of execute / _poll_statement
    start_time,        \* local start_time of _poll_statement
    outcome,           \* what the finished call returned or raised
    sent,              \* history: HTTP requests sent by the current call, by kind
    last,              \* history: the last HTTP request of the current call and its response
    lookup,            \* history: the last _get_access_token call of the current call
    refresh,           \* history: the last completed refresh of the cache
    submission         \* history: the submission request of the current call and its response

vars == <<now, access_token, token_expires_at, config, pc, op, ret, args, tok,
          token_data, handle, start_time, outcome, sent, last, lookup, refresh,
          submission>>

----------------------------------------------------------------------------
(* Bounds of the model *)

MaxTime == 80          \* the clock stops advancing here (tenths of a second)
MaxTimeout == 3        \* largest timeout argument, in seconds
MaxExpiresIn == 1      \* largest small expires_in the token endpoint reports
MaxCols == 2           \* longest rowType of a raw envelope given to _format_result

(* Program constants *)

DefaultExpiresIn == 600     \* token_data.get('expires_in', 600)
SlackTenths == 9            \* expires_in * 0.9, in tenths
NoneVal == "None"

Sec(n) == n * 10

----------------------------------------------------------------------------
(* Python helpers *)

Has(obj, k) == k \in DOMAIN obj

Get(obj, k, default) == IF Has(obj, k) THEN obj[k] ELSE default

\* bool(x) for the values a token or an argument takes; a dict argument is
\* written as its JSON text
Truthy(x) == x \notin {NoneVal, "", "{}"}

\* a or b
Or(a, b) == IF Truthy(a) THEN a ELSE b

Raise(e) == [kind |-> "raise", error |-> e]

Return(v) == [kind |-> "return", value |-> v]

----------------------------------------------------------------------------
(* _format_result *)

ColumnOf(col) ==
    [name |-> col["name"], type |-> col["type"], nullable |-> Get(col, "nullable", TRUE)]

ColumnRaises(col) == ~Has(col, "name") \/ ~Has(col, "type")

FormatResult(result) ==
    LET hasMeta == Has(result, "resultSetMetaData")
        metadata == result["resultSetMetaData"]
        rowType == metadata["rowType"]
        base == [statement_handle |-> Get(result, "statementHandle", NoneVal),
                 success |-> hasMeta,
                 row_count |-> IF hasMeta THEN Get(metadata, "numRows", 0) ELSE 0,
                 columns |-> IF hasMeta /\ Has(metadata, "rowType")
                             THEN [i \in 1..Len(rowType) |-> ColumnOf(rowType[i])]
                             ELSE <<>>,
                 data |-> IF hasMeta /\ Has(result, "data") THEN result["data"] ELSE <<>>]
        withMessage == IF Has(result, "message")
                       THEN ("message" :> result["message"]) @@ base
                       ELSE base
        withCode == IF Has(result, "code")
                    THEN ("code" :> result["code"]) @@ withMessage
                    ELSE withMessage
    IN  IF hasMeta /\ Has(metadata, "rowType")
           /\ \E i \in 1..Len(rowType) : ColumnRaises(rowType[i])
        THEN Raise("KeyError")
        ELSE Return(withCode)

----------------------------------------------------------------------------
(* The environment: what the three endpoints can answer *)

HttpDelays == {0, 10}

\* the OAuth server issues a token other than the one in use
IssuedTokens == {IF access_token = "t1" THEN "t2" ELSE "t1"}

ExpiresInValues == (0..MaxExpiresIn) \cup {DefaultExpiresIn}

TokenBodies ==
    {[token_type |-> "Bearer"]}
    \cup {[access_token |-> t] : t \in IssuedTokens}
    \cup {[access_token |-> t, expires_in |-> e] : t \in IssuedTokens, e \in ExpiresInValues}

TokenResponses ==
    {[status |-> 401, body |-> [message |-> "invalid_grant"]]}
    \cup {[status |-> 200, body |-> b] : b \in TokenBodies}

MetaA == [numRows |-> 2, rowType |-> <<[name |-> "A", type |-> "TEXT"]>>]

BodyRows == [statementHandle |-> "h1", resultSetMetaData |-> MetaA,
             data |-> <<(<<"x">>), (<<NoneVal>>)>>]

BodyError == [message |-> "table not found", code |-> "002003"]

BodyPartial == [statementHandle |-> "h1", message |-> "partial",
                resultSetMetaData |-> [rowType |-> <<[name |-> "A", type |-> "TEXT", nullable |-> FALSE]>>]]

BodyBadColumn == [statementHandle |-> "h1",
                  resultSetMetaData |-> [numRows |-> 0, rowType |-> <<[type |-> "TEXT"]>>]]

BodyPending == [statementHandle |-> "h1", statementStatusUrl |-> "/api/v2/statements/h1"]

BodyCodeOnly == [code |-> "333334"]

FinalBodies == {BodyRows, BodyError, BodyPartial, BodyBadColumn}

SubmitResponses ==
    {[status |-> 400, body |-> BodyError]}
    \cup {[status |-> 200, body |-> b] : b \in FinalBodies}
    \cup {[status |-> 202, body |-> b] : b \in {BodyPending, BodyCodeOnly}}

StatusResponses ==
    {[status |-> 500, body |-> BodyError]}
    \cup {[status |-> 200, body |-> b] : b \in FinalBodies \cup {BodyPending, BodyCodeOnly}}

CancelResponses ==
    {[status |-> s, body |-> b] : s \in {200, 202, 404}, b \in {BodyCodeOnly, BodyError}}

Handles == {"h1"}

Timeouts == -1..MaxTimeout

----------------------------------------------------------------------------
(* Request payloads *)

WithKey(cond, k, v, obj) == IF cond THEN (k :> v) @@ obj ELSE obj

\* mutant of ExecutePayload: the instance default wins over the per-call value
ExecutePayloadDefaultFirst(cfg, a) ==
    LET p0 == [statement |-> a.sql, timeout |-> a.timeout]
        p1 == WithKey(Truthy(a.database) \/ Truthy(cfg.database), "database",
                      Or(cfg.database, a.database), p0)
        p2 == WithKey(Truthy(a.schema) \/ Truthy(cfg.schema), "schema",
                      Or(cfg.schema, a.schema), p1)
        p3 == WithKey(Truthy(a.warehouse), "warehouse", a.warehouse, p2)
        p4 == WithKey(Truthy(a.role), "role", a.role, p3)
    IN  WithKey(Truthy(a.bindings), "bindings", a.bindings, p4)

\* execute, lines 143-157
ExecutePayload(cfg, a) ==
    LET p0 == [statement |-> a.sql, timeout |-> a.timeout]
        p1 == WithKey(Truthy(a.database) \/ Truthy(cfg.database), "database",
                      Or(a.database, cfg.database), p0)
        p2 == WithKey(Truthy(a.schema) \/ Truthy(cfg.schema), "schema",
                      Or(a.schema, cfg.schema), p1)
        p3 == WithKey(Truthy(a.warehouse), "warehouse", a.warehouse, p2)
        p4 == WithKey(Truthy(a.role), "role", a.role, p3)
    IN  WithKey(Truthy(a.bindings), "bindings", a.bindings, p4)

\* execute_async, lines 287-296
AsyncPayload(cfg, a) ==
    LET p0 == [statement |-> a.sql, timeout |-> 0, async |-> TRUE]
        p1 == WithKey(Truthy(a.database) \/ Truthy(cfg.database), "database",
                      Or(a.database, cfg.database), p0)
        p2 == WithKey(Truthy(a.schema) \/ Truthy(cfg.schema), "schema",
                      Or(a.schema, cfg.schema), p1)
        p3 == WithKey(Truthy(a.warehouse), "warehouse", a.warehouse, p2)
    IN  WithKey(Truthy(a.role), "role", a.role, p3)

----------------------------------------------------------------------------
(* Conditions of the code *)

\* mutant of TokenValid: a token is still used at the instant it expires
TokenValidAtExpiry(token, expires_at, t) == Truthy(token) /\ t <= expires_at

\* line 85: self._access_token and time.time() < self._token_expires_at
TokenValid(token, expires_at, t) == Truthy(token) /\ t < expires_at

\* mutant of RefreshOk: the status of the token response is not looked at
RefreshOkAnyStatus(status) == TRUE

\* line 102: response.status_code != 200 raises
RefreshOk(status) == status = 200

\* mutant of ExpiresAt: the whole reported lifetime, without the 10% slack
ExpiresAtNoSlack(t, data) == t + 10 * Get(data, "expires_in", DefaultExpiresIn)

\* lines 110-111: time.time() + expires_in * 0.9, in tenths of a second
ExpiresAt(t, data) == t + SlackTenths * Get(data, "expires_in", DefaultExpiresIn)

\* mutant of SubmitOk: only 202 counts as an accepted submission
SubmitOkOnly202(status) == status = 202

\* lines 172 and 308: response.status_code in [200, 202]
SubmitOk(status) == status \in {200, 202}

\* mutant of NeedsPoll: every accepted submission is polled
NeedsPollAlways(status) == TRUE

\* line 180: response.status_code == 202
NeedsPoll(status) == status = 202

\* mutant of LoopGuard: the loop body runs once before the deadline is looked at
LoopGuardAtLeastOnce(t, start, timeout) == t = start \/ t - start < Sec(timeout)

\* mutant of LoopGuard: one more iteration at the deadline itself
LoopGuardInclusive(t, start, timeout) == t - start <= Sec(timeout)

\* line 201: time.time() - start_time < timeout
LoopGuard(t, start, timeout) == t - start < Sec(timeout)

\* mutant of StatusOk: the status of a status response is not looked at
StatusOkAnyStatus(status) == TRUE

\* lines 210 and 337: response.status_code == 200
StatusOk(status) == status = 200

\* mutant of IsTerminal: only a message ends the loop
IsTerminalMessageOnly(result) == Has(result, "message")

\* mutant of IsTerminal: a code field ends the loop too
IsTerminalWithCode(result) ==
    Has(result, "resultSetMetaData") \/ Has(result, "message") \/ Has(result, "code")

\* line 219: 'resultSetMetaData' in result or 'message' in result
IsTerminal(result) == Has(result, "resultSetMetaData") \/ Has(result, "message")

\* mutant of CancelOk: every status below 400 counts as cancelled
CancelOkBelow400(status) == status < 400

\* line 365: response.status_code == 200
CancelOk(status) == status = 200

----------------------------------------------------------------------------
(* State *)

\* no result yet; no token response at hand
NoOutcome == [kind |-> "none"]

NoTokenData == [kind |-> "none"]

NoSent == [token |-> 0, submit |-> 0, status |-> 0, cancel |-> 0]

NoLast == [kind |-> "none"]

NoLookup == [n |-> 0]

NoSubmission == [n |-> 0]

NoArgs == [sql |-> NoneVal]

NoOverrides == [database |-> NoneVal, schema |-> NoneVal, warehouse |-> NoneVal,
                role |-> NoneVal, bindings |-> NoneVal]

AllOverrides == [database |-> "D1", schema |-> "S1", warehouse |-> "W1",
                 role |-> "R1", bindings |-> "{\"1\": {\"type\": \"FIXED\", \"value\": \"7\"}}"]

Overrides == {NoOverrides, AllOverrides}

Configs == {[database |-> "DB0", schema |-> ""]}

Request(kind, bearer, payload, resp) ==
    [kind |-> kind, at |-> now, bearer |-> bearer, ctok |-> access_token,
     cexp |-> token_expires_at, payload |-> payload, resp |-> resp]

\* __init__, lines 57-58 and 73-75; time.time() is positive
Init ==
    /\ now = 10
    /\ access_token = NoneVal
    /\ token_expires_at = 0
    /\ config \in Configs
    /\ pc = "idle"
    /\ op = NoneVal
    /\ ret = NoneVal
    /\ args = NoArgs
    /\ tok = NoneVal
    /\ token_data = NoTokenData
    /\ handle = NoneVal
    /\ start_time = 0
    /\ outcome = NoOutcome
    /\ sent = NoSent
    /\ last = NoLast
    /\ lookup = NoLookup
    /\ refresh = [n |-> 0]
    /\ submission = NoSubmission

cache == <<access_token, token_expires_at, refresh>>

locals == <<tok, token_data, handle, start_time>>

call == <<op, args>>

Finish(result) ==
    /\ pc' = "done"
    /\ outcome' = result

----------------------------------------------------------------------------
(* The caller *)

CallExecute ==
    /\ pc = "idle"
    /\ \E t \in Timeouts, ov \in Overrides :
         args' = [sql |-> "SELECT 1", timeout |-> t] @@ ov
    /\ op' = "execute"
    /\ ret' = "submit"
    /\ pc' = "get_token"
    /\ UNCHANGED <<now, cache, config, locals, outcome, sent, last, lookup, submission>>

CallExecuteAsync ==
    /\ pc = "idle"
    /\ \E ov \in Overrides :
         args' = [sql |-> "SELECT 1", timeout |-> 0] @@ ov
    /\ op' = "execute_async"
    /\ ret' = "async_submit"
    /\ pc' = "get_token"
    /\ UNCHANGED <<now, cache, config, locals, outcome, sent, last, lookup, submission>>

CallGetStatementStatus ==
    /\ pc = "idle"
    /\ \E h \in Handles : args' = [statement_handle |-> h]
    /\ op' = "get_statement_status"
    /\ ret' = "status_get"
    /\ pc' = "get_token"
    /\ UNCHANGED <<now, cache, config, locals, outcome, sent, last, lookup, submission>>

CallCancelStatement ==
    /\ pc = "idle"
    /\ \E h \in Handles : args' = [statement_handle |-> h]
    /\ op' = "cancel_statement"
    /\ ret' = "cancel_post"
    /\ pc' = "get_token"
    /\ UNCHANGED <<now, cache, config, locals, outcome, sent, last, lookup, submission>>

\* the call is over: the caller has its result or its exception
ReturnToCaller ==
    /\ pc = "done"
    /\ pc' = "idle"
    /\ op' = NoneVal
    /\ ret' = NoneVal
    /\ args' = NoArgs
    /\ tok' = NoneVal
    /\ token_data' = NoTokenData
    /\ handle' = NoneVal
    /\ start_time' = 0
    /\ outcome' = NoOutcome
    /\ sent' = NoSent
    /\ last' = NoLast
    /\ lookup' = NoLookup
    /\ submission' = NoSubmission
    /\ UNCHANGED <<now, cache, config>>

\* time passes between two calls
Elapse ==
    /\ pc = "idle"
    /\ now + Sec(1) <= MaxTime
    /\ now' = now + Sec(1)
    /\ UNCHANGED <<cache, config, pc, call, ret, locals, outcome, sent, last, lookup, submission>>

----------------------------------------------------------------------------
(* _get_access_token *)

\* lines 85-86
GetTokenCached ==
    /\ pc = "get_token"
    /\ TokenValid(access_token, token_expires_at, now)
    /\ tok' = access_token
    /\ lookup' = [n |-> lookup.n + 1, at |-> now, ctok |-> access_token,
                  cexp |-> token_expires_at, hit |-> TRUE, reqs |-> 0, for |-> ret]
    /\ pc' = ret
    /\ UNCHANGED <<now, cache, config, call, ret, token_data, handle, start_time,
                   outcome, sent, last, submission>>

\* mutant of GetTokenRefresh: a failed refresh throws the cached token away
GetTokenRefreshClearsCache ==
    /\ pc = "get_token"
    /\ ~TokenValid(access_token, token_expires_at, now)
    /\ \E d \in HttpDelays, r \in TokenResponses :
         /\ now + d <= MaxTime
         /\ now' = now + d
         /\ last' = Request("token", NoneVal, NoneVal, r)
         /\ IF ~RefreshOk(r.status)
            THEN /\ Finish(Raise("Failed to refresh token"))
                 /\ access_token' = NoneVal
                 /\ UNCHANGED token_data
            ELSE IF ~Has(r.body, "access_token")
            THEN /\ Finish(Raise("KeyError: 'access_token'"))
                 /\ access_token' = NoneVal
                 /\ UNCHANGED token_data
            ELSE /\ token_data' = r.body
                 /\ access_token' = r.body["access_token"]
                 /\ pc' = "set_expiry"
                 /\ UNCHANGED outcome
    /\ sent' = [sent EXCEPT !.token = @ + 1]
    /\ lookup' = [n |-> lookup.n + 1, at |-> now, ctok |-> access_token,
                  cexp |-> token_expires_at, hit |-> FALSE, reqs |-> 1, for |-> ret]
    /\ UNCHANGED <<token_expires_at, refresh, config, call, ret, tok, handle,
                   start_time, submission>>

\* lines 85-108
GetTokenRefresh ==
    /\ pc = "get_token"
    /\ ~TokenValid(access_token, token_expires_at, now)
    /\ \E d \in HttpDelays, r \in TokenResponses :
         /\ now + d <= MaxTime
         /\ now' = now + d
         /\ last' = Request("token", NoneVal, NoneVal, r)
         /\ IF ~RefreshOk(r.status)
            THEN /\ Finish(Raise("Failed to refresh token"))
                 /\ UNCHANGED <<access_token, token_data>>
            ELSE IF ~Has(r.body, "access_token")
            THEN /\ Finish(Raise("KeyError: 'access_token'"))
                 /\ UNCHANGED <<access_token, token_data>>
            ELSE /\ token_data' = r.body
                 /\ access_token' = r.body["access_token"]
                 /\ pc' = "set_expiry"
                 /\ UNCHANGED outcome
    /\ sent' = [sent EXCEPT !.token = @ + 1]
    /\ lookup' = [n |-> lookup.n + 1, at |-> now, ctok |-> access_token,
                  cexp |-> token_expires_at, hit |-> FALSE, reqs |-> 1, for |-> ret]
    /\ UNCHANGED <<token_expires_at, refresh, config, call, ret, tok, handle,
                   start_time, submission>>

\* lines 110-113
GetTokenSetExpiry ==
    /\ pc = "set_expiry"
    /\ token_expires_at' = ExpiresAt(now, token_data)
    /\ refresh' = [n |-> 1, at |-> now, data |-> token_data]
    /\ tok' = access_token
    /\ token_data' = NoTokenData
    /\ pc' = ret
    /\ UNCHANGED <<now, access_token, config, call, ret, handle, start_time, outcome,
                   sent, last, lookup, submission>>

----------------------------------------------------------------------------
(* execute and _poll_statement *)

\* lines 142-184, from the submission to the return or to the call of _poll_statement
Submit ==
    /\ pc = "submit"
    /\ \E d \in HttpDelays, r \in SubmitResponses :
         /\ now + d <= MaxTime
         /\ now' = now + d
         /\ last' = Request("submit", tok, ExecutePayload(config, args), r)
         /\ submission' = [n |-> 1, at |-> now, resp |-> r]
         /\ IF ~SubmitOk(r.status)
            THEN /\ Finish(Raise("SQL execution failed"))
                 /\ UNCHANGED <<handle, ret>>
            ELSE IF ~NeedsPoll(r.status)
            THEN /\ Finish(FormatResult(r.body))
                 /\ UNCHANGED <<handle, ret>>
            ELSE IF ~Has(r.body, "statementHandle")
            THEN /\ Finish(Raise("KeyError: 'statementHandle'"))
                 /\ UNCHANGED <<handle, ret>>
            ELSE /\ handle' = r.body["statementHandle"]
                 /\ ret' = "poll_start"
                 /\ pc' = "get_token"
                 /\ UNCHANGED outcome
    /\ sent' = [sent EXCEPT !.submit = @ + 1]
    /\ UNCHANGED <<cache, config, call, tok, token_data, start_time, lookup>>

\* lines 198-200
PollStart ==
    /\ pc = "poll_start"
    /\ start_time' = now
    /\ pc' = "poll_loop"
    /\ UNCHANGED <<now, cache, config, call, ret, tok, token_data, handle, outcome,
                   sent, last, lookup, submission>>

\* lines 201-223, one iteration; the result goes through line 184
PollIteration ==
    /\ pc = "poll_loop"
    /\ LoopGuard(now, start_time, args.timeout)
    /\ \E d \in HttpDelays, r \in StatusResponses :
         LET raises == ~StatusOk(r.status)
             ends == ~raises /\ IsTerminal(r.body)
             slept == IF raises \/ ends THEN 0 ELSE Sec(1)
         IN  /\ now + d + slept <= MaxTime
             /\ now' = now + d + slept
             /\ last' = Request("status", tok, NoneVal, r)
             /\ IF raises THEN Finish(Raise("Failed to get statement status"))
                ELSE IF ends THEN Finish(FormatResult(r.body))
                ELSE UNCHANGED <<pc, outcome>>
    /\ sent' = [sent EXCEPT !.status = @ + 1]
    /\ UNCHANGED <<cache, config, call, ret, locals, lookup, submission>>

\* lines 201 and 225
PollTimeout ==
    /\ pc = "poll_loop"
    /\ ~LoopGuard(now, start_time, args.timeout)
    /\ Finish(Raise("Statement execution timed out"))
    /\ UNCHANGED <<now, cache, config, call, ret, locals, sent, last, lookup, submission>>

----------------------------------------------------------------------------
(* execute_async, get_statement_status, cancel_statement *)

\* lines 287-314
AsyncSubmit ==
    /\ pc = "async_submit"
    /\ \E d \in HttpDelays, r \in SubmitResponses :
         /\ now + d <= MaxTime
         /\ now' = now + d
         /\ last' = Request("submit", tok, AsyncPayload(config, args), r)
         /\ submission' = [n |-> 1, at |-> now, resp |-> r]
         /\ IF ~SubmitOk(r.status)
            THEN Finish(Raise("Async SQL submission failed"))
            ELSE Finish(Return(Get(r.body, "statementHandle", NoneVal)))
    /\ sent' = [sent EXCEPT !.submit = @ + 1]
    /\ UNCHANGED <<cache, config, call, ret, locals, lookup>>

\* mutant of StatusGet: a body without terminal marker is fetched again after
\* a second, as in _poll_statement
StatusGetPolls ==
    /\ pc = "status_get"
    /\ \E d \in HttpDelays, r \in StatusResponses :
         LET raises == ~StatusOk(r.status)
             ends == ~raises /\ IsTerminal(r.body)
             slept == IF raises \/ ends THEN 0 ELSE Sec(1)
         IN  /\ now + d + slept <= MaxTime
             /\ now' = now + d + slept
             /\ last' = Request("status", tok, NoneVal, r)
             /\ IF raises THEN Finish(Raise("Failed to get statement status"))
                ELSE IF ends THEN Finish(FormatResult(r.body))
                ELSE UNCHANGED <<pc, outcome>>
    /\ sent' = [sent EXCEPT !.status = @ + 1]
    /\ UNCHANGED <<cache, config, call, ret, locals, lookup, submission>>

\* lines 327-342
StatusGet ==
    /\ pc = "status_get"
    /\ \E d \in HttpDelays, r \in StatusResponses :
         /\ now + d <= MaxTime
         /\ now' = now + d
         /\ last' = Request("status", tok, NoneVal, r)
         /\ IF ~StatusOk(r.status)
            THEN Finish(Raise("Failed to get statement status"))
            ELSE Finish(FormatResult(r.body))
    /\ sent' = [sent EXCEPT !.status = @ + 1]
    /\ UNCHANGED <<cache, config, call, ret, locals, lookup, submission>>

\* lines 355-365
CancelPost ==
    /\ pc = "cancel_post"
    /\ \E d \in HttpDelays, r \in CancelResponses :
         /\ now + d <= MaxTime
         /\ now' = now + d
         /\ last' = Request("cancel", tok, NoneVal, r)
         /\ Finish(Return(CancelOk(r.status)))
    /\ sent' = [sent EXCEPT !.cancel = @ + 1]
    /\ UNCHANGED <<cache, config, call, ret, locals, lookup, submission>>

----------------------------------------------------------------------------

Next ==
    \/ CallExecute
    \/ CallExecuteAsync
    \/ CallGetStatementStatus
    \/ CallCancelStatement
    \/ ReturnToCaller
    \/ Elapse
    \/ GetTokenCached
    \/ GetTokenRefresh
    \/ GetTokenSetExpiry
    \/ Submit
    \/ PollStart
    \/ PollIteration
    \/ PollTimeout
    \/ AsyncSubmit
    \/ StatusGet
    \/ CancelPost

Spec == Init /\ [][Next]_vars

\* the steps inside a call: the code runs on until it returns or raises,
\* and every HTTP round trip comes back
Steps ==
    \/ GetTokenCached
    \/ GetTokenRefresh
    \/ GetTokenSetExpiry
    \/ Submit
    \/ PollStart
    \/ PollIteration
    \/ PollTimeout
    \/ AsyncSubmit
    \/ StatusGet
    \/ CancelPost

FairSpec == Spec /\ WF_vars(Steps)

----------------------------------------------------------------------------
(* Token lookup *)

\* _get_access_token is about to run and has to refresh
NeedsRefresh == ~Truthy(access_token) \/ ~(now < token_expires_at)

\* C1: a token lookup sends a refresh request if and only if no token is cached
\* or the clock is not before the cached expires_at.
\* With a token cached and expires_at in the future it sends nothing and
\* returns the cached token, leaving the cache alone; otherwise it sends
\* exactly one token request: the step that finishes the refresh sends none.
C1_RefreshIffNoneOrExpired ==
    [][/\ pc = "get_token" =>
            /\ sent'.token = sent.token + (IF NeedsRefresh THEN 1 ELSE 0)
            /\ ~NeedsRefresh =>
                 /\ tok' = access_token
                 /\ pc' = ret
                 /\ UNCHANGED <<access_token, token_expires_at, last>>
            /\ NeedsRefresh => pc' \in {"set_expiry", "done"} /\ last'.kind = "token"
       /\ pc = "set_expiry" => sent' = sent /\ pc' = ret /\ tok' = access_token
      ]_vars

\* C1 witness: in one execute call the first lookup found a live token and sent
\* nothing, and the lookup before polling found the same token expired (its
\* expires_at in the past) and sent the call's only token request.
C1_Witness ==
    /\ op = "execute"
    /\ pc = "poll_start"
    /\ lookup.n = 2
    /\ ~lookup.hit
    /\ Truthy(lookup.ctok)
    /\ lookup.cexp < lookup.at
    /\ sent.token = 1

\* C2: outside the two steps of a refresh, the cached expires_at is the clock
\* reading of the last refresh plus 0.9 times the expires_in the endpoint
\* reported (600 when it reported none); clock in tenths of a second, so
\* expires_in = 600 gives the reading plus 5400 tenths = 540 s.
C2_ExpiryIsNowPlusNineTenths ==
    (refresh.n = 1 /\ pc /= "set_expiry") =>
        LET reported == IF "expires_in" \in DOMAIN refresh.data
                        THEN refresh.data["expires_in"] ELSE 600
        IN  /\ 10 * (token_expires_at - refresh.at) = 9 * (10 * reported)
            /\ reported = 600 => token_expires_at = refresh.at + 5400

\* C2 witness: a refresh that reported expires_in = 600 has completed, after a
\* token request that took time.
C2_Witness ==
    /\ refresh.n = 1
    /\ pc /= "set_expiry"
    /\ "expires_in" \in DOMAIN refresh.data
    /\ refresh.data["expires_in"] = 600
    /\ last.kind = "token"
    /\ refresh.at > last.at
    /\ token_expires_at = refresh.at + 5400

----------------------------------------------------------------------------
(* Failed refresh *)

\* the token endpoint's answer to the last request is not a usable token
BadTokenResponse ==
    /\ last.kind = "token"
    /\ last.resp.status /= 200 \/ "access_token" \notin DOMAIN last.resp.body

\* the call ended with the error of a failed token lookup
TokenFailure ==
    /\ pc = "done"
    /\ outcome.kind = "raise"
    /\ outcome.error \in {"Failed to refresh token", "KeyError: 'access_token'"}

\* C3 as stated: a token endpoint answer other than 200, or a 200 body without
\* access_token, fails the lookup after one token request, and the operation
\* that asked for the token fails having sent no statement, status or cancel
\* request.
C3_FailedRefreshSendsNoRequest ==
    /\ BadTokenResponse => TokenFailure
    /\ TokenFailure =>
         /\ BadTokenResponse
         /\ lookup.reqs = 1
         /\ sent.token <= lookup.n
         /\ sent.submit = 0 /\ sent.status = 0 /\ sent.cancel = 0

\* C3 amended: such an answer fails the lookup with an error after one token
\* request (the refresh error for a status other than 200, a KeyError for a
\* missing access_token), the failing token request is the last request of
\* the operation, and no status or cancel request is sent; no statement
\* request is sent either, except that execute's lookup at the start of
\* polling fails after the one submission execute has already sent.
C3_FailedRefreshEndsTheCall ==
    /\ BadTokenResponse =>
         /\ TokenFailure
         /\ outcome.error = IF last.resp.status /= 200
                            THEN "Failed to refresh token"
                            ELSE "KeyError: 'access_token'"
    /\ TokenFailure =>
         /\ BadTokenResponse
         /\ lookup.reqs = 1
         /\ ~lookup.hit
         /\ sent.token <= lookup.n
         /\ sent.status = 0 /\ sent.cancel = 0
         /\ sent.submit = IF op = "execute" /\ lookup.n = 2 THEN 1 ELSE 0

\* C3 witness: execute's lookup at the start of polling fails on a 200 answer
\* without access_token, after the submission and before any status request.
C3_Witness ==
    /\ op = "execute"
    /\ TokenFailure
    /\ last.resp.status = 200
    /\ lookup.n = 2
    /\ sent.submit = 1
    /\ sent.status = 0

----------------------------------------------------------------------------
(* execute *)

TimedOut == Raise("Statement execution timed out")

\* C4: when the submission of execute is answered 200, the call is over at
\* once: no status request is sent for it and it returns what _format_result
\* makes of the submission body.
C4_CompletedSubmissionIsNotPolled ==
    (op = "execute" /\ submission.n = 1 /\ submission.resp.status = 200) =>
        /\ pc = "done"
        /\ sent.status = 0
        /\ last.kind = "submit"
        /\ outcome = FormatResult(submission.resp.body)

\* C4 witness: execute returned the rows of a 200 submission.
C4_Witness ==
    /\ op = "execute"
    /\ pc = "done"
    /\ submission.n = 1
    /\ submission.resp.status = 200
    /\ outcome.kind = "return"
    /\ outcome.value.success
    /\ outcome.value.row_count = 2

\* C5: in an execute whose submission was answered 202, a status response 200
\* that contains resultSetMetaData ends the loop: it stays the last request of
\* the call and execute returns what _format_result makes of that body.
C5_MetadataEndsPolling ==
    (/\ op = "execute"
     /\ last.kind = "status"
     /\ last.resp.status = 200
     /\ "resultSetMetaData" \in DOMAIN last.resp.body) =>
        /\ submission.resp.status = 202
        /\ pc = "done"
        /\ outcome = FormatResult(last.resp.body)

\* C5 witness: the third status response of a call, after two without a
\* terminal marker, carried resultSetMetaData and its rows were returned.
C5_Witness ==
    /\ op = "execute"
    /\ pc = "done"
    /\ sent.status = 3
    /\ last.kind = "status"
    /\ "resultSetMetaData" \in DOMAIN last.resp.body
    /\ outcome.kind = "return"
    /\ outcome.value.success
    /\ outcome.value.data = <<(<<"x">>), (<<NoneVal>>)>>

\* the loop of _poll_statement is at its head with the timeout used up
DeadlinePassed ==
    /\ pc = "poll_loop"
    /\ now - start_time >= 10 * args.timeout

\* C6: when the loop has used up the timeout without a terminal response,
\* the next step of execute raises the timeout error, and it sends no status
\* request and no cancellation request.
C6_TimeoutRaisesAndSendsNothing ==
    [][DeadlinePassed =>
          /\ pc' = "done"
          /\ outcome' = TimedOut
          /\ sent' = sent
          /\ last' = last
          /\ sent.cancel = 0
      ]_vars

\* C6 witness: execute raised the timeout error after three status responses
\* without a terminal marker.
C6_Witness ==
    /\ op = "execute"
    /\ pc = "done"
    /\ outcome = TimedOut
    /\ sent.status = 3
    /\ submission.resp.status = 202
    /\ sent.cancel = 0

\* C7 as stated: every status request of an execute call is sent less than
\* timeout seconds after the call sent its submission.
C7_DeadlineFromSubmission ==
    (op = "execute" /\ last.kind = "status") =>
        last.at - submission.at < 10 * args.timeout

\* C8 as stated: in the polling of execute every status request follows a
\* token lookup of its own (the lookup of execute itself, then one per
\* iteration); it carries the cached token, which that lookup either found
\* not yet expired at the clock reading of the request or has just refreshed.
C8_LookupPerIteration ==
    (op = "execute" /\ last.kind = "status") =>
        /\ lookup.n = 1 + sent.status
        /\ last.bearer = last.ctok
        /\ lookup.hit => last.at < last.cexp

----------------------------------------------------------------------------
(* execute_async *)

\* C9 as stated: execute_async sends one submission with the async flag, no
\* status request, and returns the statement handle of the response whatever
\* its status code.
C9_AsyncReturnsHandleForAnyStatus ==
    (op = "execute_async" /\ submission.n = 1) =>
        /\ pc = "done"
        /\ sent.submit = 1
        /\ sent.status = 0
        /\ last.payload["async"] = TRUE
        /\ outcome = Return(Get(submission.resp.body, "statementHandle", NoneVal))

\* C9 amended: execute_async sends one submission with the async flag and
\* timeout 0 and no status request; it returns the statement handle of the
\* response (None when the body has none) when the status code is 200 or
\* 202, and raises an error for every other status code.
C9_AsyncReturnsHandleFor200And202 ==
    (op = "execute_async" /\ submission.n = 1) =>
        /\ pc = "done"
        /\ sent.submit = 1
        /\ sent.status = 0
        /\ last.kind = "submit"
        /\ last.payload["async"] = TRUE
        /\ last.payload["timeout"] = 0
        /\ outcome = IF submission.resp.status \in {200, 202}
                     THEN Return(Get(submission.resp.body, "statementHandle", NoneVal))
                     ELSE Raise("Async SQL submission failed")

\* C9 witness: execute_async returned the handle of a submission answered 200.
C9_Witness ==
    /\ op = "execute_async"
    /\ pc = "done"
    /\ submission.n = 1
    /\ submission.resp.status = 200
    /\ last.payload["async"] = TRUE
    /\ outcome = Return("h1")

----------------------------------------------------------------------------
(* No retry *)

\* C10: a submission of execute answered neither 200 nor 202, and a status
\* response other than 200 in the polling of execute or in
\* get_statement_status, ends the call at once with the HTTP error: the
\* failed request stays the last request of the call and the call's outcome
\* is that error, not a normalized result.
C10_FailedHttpCallRaisesAtOnce ==
    /\ (op = "execute" /\ last.kind = "submit" /\ last.resp.status \notin {200, 202}) =>
          /\ pc = "done"
          /\ outcome = Raise("SQL execution failed")
          /\ sent.submit = 1 /\ sent.status = 0 /\ sent.cancel = 0
    /\ (last.kind = "status" /\ last.resp.status /= 200) =>
          /\ pc = "done"
          /\ outcome = Raise("Failed to get statement status")
          /\ sent.cancel = 0
          /\ op = "get_statement_status" => sent.status = 1 /\ sent.submit = 0
          /\ op = "execute" => sent.submit = 1

\* C10 witness: the third status request of an execute call was answered 500
\* and execute raised.
C10_Witness ==
    /\ op = "execute"
    /\ pc = "done"
    /\ last.kind = "status"
    /\ last.resp.status = 500
    /\ sent.status = 3
    /\ outcome.kind = "raise"

----------------------------------------------------------------------------
(* get_statement_status and cancel_statement *)

\* C11: once get_statement_status has sent its status request the call is
\* over: that request is the only request of the call besides the token
\* request, and for a 200 response, with or without a terminal marker, the
\* call's result is what _format_result makes of that one body.
C11_StatusIsOneSnapshot ==
    (op = "get_statement_status" /\ sent.status > 0) =>
        /\ pc = "done"
        /\ sent.status = 1
        /\ sent.submit = 0 /\ sent.cancel = 0
        /\ last.kind = "status"
        /\ last.resp.status = 200 => outcome = FormatResult(last.resp.body)

\* C11 witness: get_statement_status returned the normalization of a body
\* that has no terminal marker.
C11_Witness ==
    /\ op = "get_statement_status"
    /\ pc = "done"
    /\ sent.status = 1
    /\ last.resp.status = 200
    /\ last.resp.body = BodyPending
    /\ outcome.kind = "return"
    /\ ~outcome.value.success

\* C12: once cancel_statement has its token it sends one POST to the
\* cancellation endpoint and nothing else, and returns TRUE exactly when the
\* response status is 200; any other status returns FALSE, never an error,
\* whatever the response body holds.
C12_CancelReturnsStatusIs200 ==
    (op = "cancel_statement" /\ pc = "done" /\ ~TokenFailure) =>
        /\ last.kind = "cancel"
        /\ sent.cancel = 1
        /\ sent.submit = 0 /\ sent.status = 0
        /\ outcome.kind = "return"
        /\ outcome.value = (last.resp.status = 200)

\* C12 witness: cancel_statement returned FALSE for a 202 response.
C12_Witness ==
    /\ op = "cancel_statement"
    /\ pc = "done"
    /\ last.kind = "cancel"
    /\ last.resp.status = 202
    /\ last.resp.body = BodyError
    /\ outcome = Return(FALSE)

----------------------------------------------------------------------------
(* _format_result on its own: every raw envelope of a bounded shape *)

EmptyObject == <<>>

\* rowType descriptors: name, type and nullable each present or not
ColumnDescriptors ==
    {WithKey(hn, "name", n,
       WithKey(ht, "type", "TEXT",
         WithKey(hu, "nullable", FALSE, EmptyObject))) :
     hn \in BOOLEAN, n \in {"A", "B"}, ht \in BOOLEAN, hu \in BOOLEAN}

RowTypes == UNION {[1..n -> ColumnDescriptors] : n \in 0..MaxCols}

MetaDatas ==
    {WithKey(hr, "rowType", rt, WithKey(hn, "numRows", n, EmptyObject)) :
     hr \in BOOLEAN, rt \in RowTypes, hn \in BOOLEAN, n \in {0, 2}}

DataRows == {<<>>, <<(<<"x">>), (<<NoneVal>>)>>}

Envelopes ==
    {WithKey(hh, "statementHandle", "h1",
       WithKey(hm, "resultSetMetaData", md,
         WithKey(hd, "data", rows,
           WithKey(hg, "message", "table not found",
             WithKey(hc, "code", "002003", EmptyObject))))) :
     hh \in BOOLEAN, hm \in BOOLEAN, md \in MetaDatas, hd \in BOOLEAN,
     rows \in DataRows, hg \in BOOLEAN, hc \in BOOLEAN}

\* a caller is about to hand one raw envelope to _format_result
InitFormat ==
    /\ now = 10
    /\ access_token = NoneVal
    /\ token_expires_at = 0
    /\ config \in Configs
    /\ pc = "format"
    /\ op = "_format_result"
    /\ ret = NoneVal
    /\ args \in Envelopes
    /\ tok = NoneVal
    /\ token_data = NoTokenData
    /\ handle = NoneVal
    /\ start_time = 0
    /\ outcome = NoOutcome
    /\ sent = NoSent
    /\ last = NoLast
    /\ lookup = NoLookup
    /\ refresh = [n |-> 0]
    /\ submission = NoSubmission

\* lines 237-271
Format ==
    /\ pc = "format"
    /\ Finish(FormatResult(args))
    /\ UNCHANGED <<now, cache, config, call, ret, locals, sent, last, lookup, submission>>

SpecFormat == InitFormat /\ [][Format]_vars

Formatted == op = "_format_result" /\ pc = "done"

\* every rowType descriptor of the envelope has a name and a type
WellFormedColumns(result) ==
    ("resultSetMetaData" \in DOMAIN result
     /\ "rowType" \in DOMAIN result["resultSetMetaData"]) =>
        \A i \in DOMAIN result["resultSetMetaData"]["rowType"] :
            {"name", "type"} \subseteq DOMAIN result["resultSetMetaData"]["rowType"][i]

\* the values C13 gives the normalized result v of the raw envelope e
NormalizedValues(e, v) ==
    /\ v.success = ("resultSetMetaData" \in DOMAIN e)
    /\ IF "resultSetMetaData" \in DOMAIN e
       THEN LET md == e["resultSetMetaData"]
                rt == IF "rowType" \in DOMAIN md THEN md["rowType"] ELSE <<>>
            IN  /\ v.row_count = (IF "numRows" \in DOMAIN md THEN md["numRows"] ELSE 0)
                /\ Len(v.columns) = Len(rt)
                /\ \A i \in 1..Len(rt) :
                     /\ v.columns[i].name = rt[i]["name"]
                     /\ v.columns[i].type = rt[i]["type"]
                     /\ v.columns[i].nullable =
                          (IF "nullable" \in DOMAIN rt[i] THEN rt[i]["nullable"] ELSE TRUE)
                /\ IF "data" \in DOMAIN e
                   THEN Len(v.data) = Len(e["data"])
                        /\ \A i \in 1..Len(v.data) : v.data[i] = e["data"][i]
                   ELSE Len(v.data) = 0
       ELSE /\ v.row_count = 0
            /\ Len(v.columns) = 0
            /\ Len(v.data) = 0

\* C13 as stated: for every raw envelope _format_result gives a result whose
\* success flag says whether resultSetMetaData is present, with row_count,
\* columns and data as the envelope gives them (defaults 0, nullable TRUE,
\* empty) and 0 and empty without resultSetMetaData.
C13_NormalizedForEveryEnvelope ==
    Formatted => (outcome.kind = "return" /\ NormalizedValues(args, outcome.value))

\* the same for the envelopes whose rowType descriptors all have name and type
C13_NormalizedWhenColumnsWellFormed ==
    (Formatted /\ WellFormedColumns(args)) =>
        (outcome.kind = "return" /\ NormalizedValues(args, outcome.value))

\* C14 as stated: for every raw envelope _format_result gives a result into
\* which a message that is present and a code that is present are each copied
\* unchanged, with or without resultSetMetaData; without resultSetMetaData
\* the result has success FALSE.
C14_MessageAndCodeCopied ==
    Formatted =>
        /\ outcome.kind = "return"
        /\ "message" \in DOMAIN args =>
             ("message" \in DOMAIN outcome.value /\ outcome.value["message"] = args["message"])
        /\ "code" \in DOMAIN args =>
             ("code" \in DOMAIN outcome.value /\ outcome.value["code"] = args["code"])
        /\ "resultSetMetaData" \notin DOMAIN args => ~outcome.value.success

\* the same for the envelopes whose rowType descriptors all have name and type
C14_CopiedWhenColumnsWellFormed ==
    (Formatted /\ WellFormedColumns(args)) => C14_MessageAndCodeCopied

\* C15 as stated: _format_result never raises; for every raw envelope, also
\* one with rowType descriptors that lack name or type, it returns a result
\* with one column per descriptor.
C15_FormatNeverRaises ==
    Formatted =>
        /\ outcome.kind = "return"
        /\ ("resultSetMetaData" \in DOMAIN args
            /\ "rowType" \in DOMAIN args["resultSetMetaData"]) =>
               Len(outcome.value.columns) = Len(args["resultSetMetaData"]["rowType"])

----------------------------------------------------------------------------
(* The payload of execute on its own: every combination of defaults and arguments *)

AllConfigs == {[database |-> d, schema |-> s] : d \in {"", "DB0"}, s \in {"", "SC0"}}

AllArguments ==
    {[sql |-> "SELECT 1", timeout |-> t, database |-> d, schema |-> s,
      warehouse |-> w, role |-> r, bindings |-> b] :
     t \in {0, MaxTimeout}, d \in {NoneVal, "", "D1"}, s \in {NoneVal, "", "S1"},
     w \in {NoneVal, "", "W1"}, r \in {NoneVal, "", "R1"},
     b \in {NoneVal, "{}", "{\"1\": {\"type\": \"FIXED\", \"value\": \"7\"}}"}}

\* execute has its token and is about to build the payload
InitPayload ==
    /\ now = 10
    /\ access_token = NoneVal
    /\ token_expires_at = 0
    /\ config \in AllConfigs
    /\ pc = "payload"
    /\ op = "execute"
    /\ ret = NoneVal
    /\ args \in AllArguments
    /\ tok = NoneVal
    /\ token_data = NoTokenData
    /\ handle = NoneVal
    /\ start_time = 0
    /\ outcome = NoOutcome
    /\ sent = NoSent
    /\ last = NoLast
    /\ lookup = NoLookup
    /\ refresh = [n |-> 0]
    /\ submission = NoSubmission

\* lines 143-157
BuildPayload ==
    /\ pc = "payload"
    /\ Finish(Return(ExecutePayload(config, args)))
    /\ UNCHANGED <<now, cache, config, call, ret, locals, sent, last, lookup, submission>>

SpecPayload == InitPayload /\ [][BuildPayload]_vars

\* an argument or a default counts as given when it is neither None nor empty
IsGiven(x) == x /= NoneVal /\ x /= "" /\ x /= "{}"

\* key k of payload p: from the argument a when given, else from the default
\* d when configured, else absent
FromArgumentThenDefault(p, k, a, d) ==
    IF IsGiven(a) THEN k \in DOMAIN p /\ p[k] = a
    ELSE IF IsGiven(d) THEN k \in DOMAIN p /\ p[k] = d
    ELSE k \notin DOMAIN p

\* key k of payload p: present exactly when the argument a is given, and then a
FromArgumentOnly(p, k, a) ==
    IF IsGiven(a) THEN k \in DOMAIN p /\ p[k] = a ELSE k \notin DOMAIN p

\* C16: in the payload of execute, database and schema hold the per-call
\* value when one is given (not None, not empty), else the instance default
\* when one is configured (not empty), else they are absent; warehouse, role
\* and bindings are present exactly when a per-call value is given, and hold it.
C16_PayloadOverrides ==
    (pc = "done" /\ outcome.kind = "return" /\ "statement" \in DOMAIN outcome.value) =>
        LET p == outcome.value
        IN  /\ p["statement"] = args.sql
            /\ p["timeout"] = args.timeout
            /\ FromArgumentThenDefault(p, "database", args.database, config.database)
            /\ FromArgumentThenDefault(p, "schema", args.schema, config.schema)
            /\ FromArgumentOnly(p, "warehouse", args.warehouse)
            /\ FromArgumentOnly(p, "role", args.role)
            /\ FromArgumentOnly(p, "bindings", args.bindings)

\* C16 witness: the per-call database wins over the default, the default
\* schema fills in for a missing per-call schema, and warehouse is absent.
C16_Witness ==
    /\ pc = "done"
    /\ config = [database |-> "DB0", schema |-> "SC0"]
    /\ args.database = "D1"
    /\ args.schema = NoneVal
    /\ args.warehouse = NoneVal
    /\ args.role = "R1"
    /\ outcome.value["database"] = "D1"
    /\ outcome.value["schema"] = "SC0"
    /\ outcome.value["role"] = "R1"
    /\ "warehouse" \notin DOMAIN outcome.value

----------------------------------------------------------------------------
(* The credential cache across a refresh *)

\* the pair that the last completed refresh wrote, or the pair of __init__
IssuedPair ==
    IF refresh.n = 0 THEN <<NoneVal, 0>>
    ELSE <<refresh.data["access_token"], ExpiresAt(refresh.at, refresh.data)>>

\* C17 as stated: in every reachable state, the states inside a refresh
\* included, the cached pair (token, expires_at) is a whole pair: the pair
\* written by the last completed refresh (or the initial pair), never a new
\* token next to the expiry of the token it replaced.
C17_CachedPairIsWhole ==
    <<access_token, token_expires_at>> = IssuedPair

\* C18: a 200 status response ends the polling loop of execute exactly when
\* it holds resultSetMetaData or message. When it does, the call is over with
\* what _format_result makes of it, which for a message without
\* resultSetMetaData is a returned result with success FALSE; when it holds
\* neither (a pending body, a body with only a code), the loop goes on, and
\* the call can then only end by the timeout.
C18_TerminalIffMetadataOrMessage ==
    (op = "execute" /\ last.kind = "status" /\ last.resp.status = 200) =>
        LET body == last.resp.body
            meta == "resultSetMetaData" \in DOMAIN body
            msg == "message" \in DOMAIN body
        IN  /\ (meta \/ msg) => (pc = "done" /\ outcome = FormatResult(body))
            /\ (msg /\ ~meta) => (outcome.kind = "return" /\ ~outcome.value.success)
            /\ ~(meta \/ msg) => (pc = "poll_loop" \/ (pc = "done" /\ outcome = TimedOut))

\* C18 witness: a status body with only a code left the loop running, and the
\* next one, with message and code, ended the call with success FALSE.
C18_Witness ==
    /\ op = "execute"
    /\ pc = "done"
    /\ sent.status = 2
    /\ last.kind = "status"
    /\ last.resp.status = 200
    /\ last.resp.body = BodyError
    /\ outcome.kind = "return"
    /\ ~outcome.value.success

\* a state where the loop runs on after a status body that holds only a code
C18_CodeOnlyKeepsPolling ==
    /\ op = "execute"
    /\ pc = "poll_loop"
    /\ last.kind = "status"
    /\ last.resp.body = BodyCodeOnly

\* C19: the step in which a token refresh fails (the token endpoint answered
\* other than 200, or 200 without access_token) leaves the cached token and
\* expires_at as they were, and the cache still calls for a refresh, so the
\* next lookup sends a token request again.
C19_FailedRefreshKeepsCache ==
    [][(pc = "get_token" /\ pc' = "done") =>
          /\ BadTokenResponse'
          /\ access_token' = access_token
          /\ token_expires_at' = token_expires_at
          /\ NeedsRefresh']_vars

\* C19 witness: a refresh failed while an earlier, expired token was cached,
\* and that token and its expiry are still the cached pair.
C19_Witness ==
    /\ TokenFailure
    /\ BadTokenResponse
    /\ refresh.n = 1
    /\ access_token /= NoneVal
    /\ <<access_token, token_expires_at>> = IssuedPair
    /\ now >= token_expires_at

----------------------------------------------------------------------------
(* Termination of execute and the number of status requests *)

Max(a, b) == IF a >= b THEN a ELSE b

\* the longest a call of execute with timeout t can take on the model's
\* clock: a refresh, the submission, a second refresh, and for t > 0 the
\* loop, whose last iteration starts before Sec(t) and lasts one round trip
\* and one sleep
CallLength(t) == 3 * 10 + (IF t > 0 THEN Sec(t) + 10 ELSE 0)

\* a call of execute has just begun, early enough for the clock of the model
\* to hold all of it
ExecuteBegun ==
    /\ op = "execute"
    /\ pc = "get_token"
    /\ ret = "submit"
    /\ now + CallLength(args.timeout) <= MaxTime

\* the number of status requests of a call of execute is at most max(timeout, 0)
StatusRequestsBounded ==
    op = "execute" => sent.status <= Max(args.timeout, 0)

\* a call of execute with timeout <= 0 whose submission was answered 202 is over
ZeroTimeoutCallOver ==
    /\ op = "execute"
    /\ pc = "done"
    /\ args.timeout <= 0
    /\ submission.n = 1
    /\ submission.resp.status = 202

\* with timeout <= 0 and a 202 submission: no status request, timeout error
ZeroTimeoutTimesOut ==
    ZeroTimeoutCallOver => (sent.status = 0 /\ outcome = TimedOut)

\* the same, the timeout error being due only when the 202 response holds a
\* statementHandle and the token lookup that precedes the loop does not fail
ZeroTimeoutTimesOutInLoop ==
    ZeroTimeoutCallOver =>
        /\ sent.status = 0
        /\ outcome.kind = "raise"
        /\ IF "statementHandle" \in DOMAIN submission.resp.body /\ ~TokenFailure
           THEN outcome = TimedOut
           ELSE outcome /= TimedOut

\* C20 as stated: every call of execute terminates, it sends at most
\* max(timeout, 0) status requests, and with timeout <= 0 and a 202
\* submission response it sends no status request and raises the timeout error.
C20_TerminatesBoundedAndTimesOut ==
    /\ ExecuteBegun ~> (op = "execute" /\ pc = "done")
    /\ [] StatusRequestsBounded
    /\ [] ZeroTimeoutTimesOut

\* C20, amended: every call of execute terminates, it sends at most
\* max(timeout, 0) status requests, and with timeout <= 0 and a 202
\* submission response it sends no status request and raises the timeout
\* error, provided the response holds a statementHandle and the token lookup
\* that precedes the loop does not fail; otherwise it raises that error
\* (KeyError at line 181, or the error of the refresh).
C20_TerminatesBoundedAndTimesOutInLoop ==
    /\ ExecuteBegun ~> (op = "execute" /\ pc = "done")
    /\ [] StatusRequestsBounded
    /\ [] ZeroTimeoutTimesOutInLoop

\* C20 witness: a call with timeout 2 that began in time sent its two status
\* requests, got no terminal answer, and ended with the timeout error.
C20_Witness ==
    /\ op = "execute"
    /\ pc = "done"
    /\ args.timeout = 2
    /\ sent.status = 2
    /\ outcome = TimedOut
    /\ submission.at + CallLength(2) <= MaxTime

\* a call with timeout 0 and a 202 submission ended with the timeout error
\* and without a status request
C20_ZeroTimeoutCallTimedOut ==
    ZeroTimeoutCallOver /\ args.timeout = 0 /\ sent.status = 0 /\ outcome = TimedOut

====
